---- MODULE Spec2Model ----
(***************************************************************************)
(* DebuggerProxy (lib/debugger-proxy.js): the breakpoint collection, the   *)
(* session life cycle with its engine subscriptions, the restoration of    *)
(* moved breakpoints at termination, and the delegation of control and     *)
(* inspection operations to the active engine.                             *)
(*                                                                         *)
(* Breakpoints are JavaScript objects: the model keeps a heap of objects   *)
(* (heap) and the collection holds references to them (breakpoints), so    *)
(* that two distinct objects with the same location can be told apart.     *)
(* Every action is one whole call of a proxy method, or one whole delivery *)
(* of an engine event to the handlers startSession registered.  lastOp     *)
(* records what the call returned, published, forwarded and threw, and     *)
(* what an observer saw of the proxy at each event it published.           *)
(***************************************************************************)
EXTENDS Integers, Sequences, FiniteSets, TLC

VARIABLES breakpoints, heap, activeDebugger, activeSubscriptions, running, lastOp

vars == <<breakpoints, heap, activeDebugger, activeSubscriptions, running, lastOp>>

----------------------------------------------------------------------------
(* Values *)

\* null / undefined where a row is expected
NoRow == -1
\* undefined where a breakpoint is expected (_.find found nothing)
NoBreakpoint == 0
\* this.activeDebugger = null
NoDebugger == "null"
\* condition = null
NoCondition == "<null>"
\* no exception was thrown
NoError == ""
NoSessionError == "No Session in progress"
RowError == "BreakpointLocation.bufferRow must be a number"
StartError == "engine start failed"

\* The most sessions' worth of engine subscriptions the model lets
\* activeSubscriptions hold at once (the code has no limit).
MaxSessions == 2

\* The Breakpoint objects the callers and the engines hold.  Objects 1 and 2
\* are two objects with the same location; object 3 sits on row 0.
Objects == {1, 2, 3}

Location(o) ==
    IF o = 3 THEN [filePath |-> "a.js", bufferRow |-> 0]
             ELSE [filePath |-> "a.js", bufferRow |-> 10]

\* Condition strings a caller passes to setBreakpointCondition.
Conditions == {"", "x"}

\* Rows an engine reports in its 'moved' events.
EngineRows == {0, 12}

Engines == {"e1", "e2"}

\* Stack frame levels a caller passes to setSelectedFrame.
Levels == {0, 1}

Channels == <<"breakpoint", "session", "target">>

\* Whether the engine's own emitter still calls a handler that was disposed
\* while the event was being delivered (Atom's Emitter iterates a snapshot
\* of its handler list, other emitters look the handler up again).
CallsDisposedHandlers(e) == e = "e1"

\* JavaScript truthiness of a row and of a condition.
FalsyRow(r) == r = NoRow \/ r = 0
FalsyCondition(c) == c = NoCondition \/ c = ""
IsNumber(r) == r # NoRow

\* new Breakpoint(location)
NewBreakpoint == [enabled |-> TRUE, condition |-> NoCondition, activeBufferRow |-> NoRow]

\* breakpoint.equals(val)
Equals(a, b) == Location(a) = Location(b)

\* An event object; origin tells the engine's event objects from the ones
\* the proxy creates itself.
Event(channel, type, bp, row, origin) ==
    [channel |-> channel, type |-> type, breakpoint |-> bp, bufferRow |-> row,
     origin |-> origin]

\* new BreakpointEvent(type, breakpoint, bufferRow) made by the proxy
BreakpointEvent(type, bp, row) == Event("breakpoint", type, bp, row, "proxy")

NoEvent == Event("none", "none", NoBreakpoint, NoRow, "none")

----------------------------------------------------------------------------
(* The proxy while one call runs: its fields, and what the call has        *)
(* published on the emitter, forwarded to an engine and thrown so far.     *)

Current ==
    [breakpoints |-> breakpoints, heap |-> heap, activeDebugger |-> activeDebugger,
     activeSubscriptions |-> activeSubscriptions,
     emitted |-> <<>>, seen |-> <<>>, calls |-> <<>>, error |-> NoError,
     disposed |-> FALSE, removes |-> <<>>, ret |-> "void"]

\* this.emitter.emit(channel, event): the observers of the channel receive the
\* event, and seen keeps what getActiveDebugger() and the engine subscriptions
\* are while they do.
Emit(st, event) ==
    [st EXCEPT !.emitted = Append(@, event),
               !.seen = Append(@, [activeDebugger |-> st.activeDebugger,
                                   activeSubscriptions |-> st.activeSubscriptions])]

\* a call of a method of an engine, with the arguments forwarded to it
Call(st, e, method, args) ==
    [st EXCEPT !.calls = Append(@, [engine |-> e, method |-> method, args |-> args])]

\* _.find(this.breakpoints, (val) => breakpoint.equals(val))
RECURSIVE FindFrom(_, _, _)
FindFrom(bps, bp, i) ==
    IF i > Len(bps) THEN NoBreakpoint
    ELSE IF Equals(bp, bps[i]) THEN bps[i]
    ELSE FindFrom(bps, bp, i + 1)

Find(bps, bp) == FindFrom(bps, bp, 1)

\* _.without(this.breakpoints, entry)
Without(bps, entry) == SelectSeq(bps, LAMBDA x : x # entry)

----------------------------------------------------------------------------
(* Breakpoint collection operations, as functions of the proxy's fields *)

\* Mutant: the duplicate test compares object identity instead of locations.
InsertBreakpointByIdentity(st, breakpoint) ==
    IF \E i \in 1..Len(st.breakpoints) : st.breakpoints[i] = breakpoint
    THEN [st EXCEPT !.ret = "false"]
    ELSE [Emit([st EXCEPT !.breakpoints = Append(@, breakpoint)],
               BreakpointEvent("inserted", breakpoint, NoRow)) EXCEPT !.ret = "true"]

\* Mutant: the 'inserted' event is published before the duplicate test.
InsertBreakpointEmitsFirst(st, breakpoint) ==
    LET s1 == Emit(st, BreakpointEvent("inserted", breakpoint, NoRow)) IN
    IF Find(st.breakpoints, breakpoint) # NoBreakpoint
    THEN [s1 EXCEPT !.ret = "false"]
    ELSE [s1 EXCEPT !.breakpoints = Append(@, breakpoint), !.ret = "true"]

\* insertBreakpoint(breakpoint)
InsertBreakpoint(st, breakpoint) ==
    IF Find(st.breakpoints, breakpoint) # NoBreakpoint
    THEN [st EXCEPT !.ret = "false"]
    ELSE LET s1 == [st EXCEPT !.breakpoints = Append(@, breakpoint)]
             s2 == Emit(s1, BreakpointEvent("inserted", breakpoint, NoRow))
         IN  [s2 EXCEPT !.ret = "true"]

\* Mutant: the 'removed' event carries the argument, not the entry found.
RemoveBreakpointEmitsArgument(st, breakpoint) ==
    LET entry == Find(st.breakpoints, breakpoint) IN
    IF entry = NoBreakpoint
    THEN [st EXCEPT !.ret = "false"]
    ELSE [Emit([st EXCEPT !.breakpoints = Without(@, entry)],
               BreakpointEvent("removed", breakpoint, NoRow)) EXCEPT !.ret = "true"]

\* removeBreakpoint(breakpoint)
RemoveBreakpoint(st, breakpoint) ==
    LET entry == Find(st.breakpoints, breakpoint) IN
    IF entry = NoBreakpoint
    THEN [st EXCEPT !.ret = "false"]
    ELSE LET s1 == [st EXCEPT !.breakpoints = Without(@, entry)]
             s2 == Emit(s1, BreakpointEvent("removed", entry, NoRow))
         IN  [s2 EXCEPT !.ret = "true"]

\* enableBreakpoint(breakpoint)
EnableBreakpoint(st, breakpoint) ==
    LET entry == Find(st.breakpoints, breakpoint) IN
    IF entry = NoBreakpoint \/ st.heap[entry].enabled
    THEN [st EXCEPT !.ret = "false"]
    ELSE LET s1 == [st EXCEPT !.heap[entry].enabled = TRUE]
             s2 == Emit(s1, BreakpointEvent("enabled", entry, NoRow))
         IN  [s2 EXCEPT !.ret = "true"]

\* Mutant: while a session is active the breakpoint is left to the engine.
DisableBreakpointWhenIdle(st, breakpoint) ==
    LET entry == Find(st.breakpoints, breakpoint) IN
    IF entry = NoBreakpoint \/ st.heap[entry].enabled = FALSE
       \/ st.activeDebugger # NoDebugger
    THEN [st EXCEPT !.ret = "false"]
    ELSE LET s1 == [st EXCEPT !.heap[entry].enabled = FALSE]
             s2 == Emit(s1, BreakpointEvent("disabled", entry, NoRow))
         IN  [s2 EXCEPT !.ret = "true"]

\* disableBreakpoint(breakpoint)
DisableBreakpoint(st, breakpoint) ==
    LET entry == Find(st.breakpoints, breakpoint) IN
    IF entry = NoBreakpoint \/ st.heap[entry].enabled = FALSE
    THEN [st EXCEPT !.ret = "false"]
    ELSE LET s1 == [st EXCEPT !.heap[entry].enabled = FALSE]
             s2 == Emit(s1, BreakpointEvent("disabled", entry, NoRow))
         IN  [s2 EXCEPT !.ret = "true"]

\* setBreakpointCondition(breakpoint, condition)
SetBreakpointCondition(st, breakpoint, condition) ==
    LET entry == Find(st.breakpoints, breakpoint) IN
    IF entry = NoBreakpoint
       \/ (~FalsyCondition(st.heap[entry].condition) /\ st.heap[entry].condition = condition)
    THEN [st EXCEPT !.ret = "false"]
    ELSE LET s1 == [st EXCEPT !.heap[entry].condition = condition]
             s2 == Emit(s1, BreakpointEvent("condition-added", entry, NoRow))
         IN  [s2 EXCEPT !.ret = "true"]

\* clearBreakpointCondition(breakpoint)
ClearBreakpointCondition(st, breakpoint) ==
    LET entry == Find(st.breakpoints, breakpoint) IN
    IF entry = NoBreakpoint \/ FalsyCondition(st.heap[entry].condition)
    THEN [st EXCEPT !.ret = "false"]
    ELSE LET s1 == [st EXCEPT !.heap[entry].condition = NoCondition]
             s2 == Emit(s1, BreakpointEvent("condition-removed", entry, NoRow))
         IN  [s2 EXCEPT !.ret = "true"]

----------------------------------------------------------------------------
(* The handlers startSession registers with the engine *)

\* debug.onBreakpointEvent(event => ...)
BreakpointHandler(st, event) ==
    LET s1 == Emit(st, event) IN
    IF event.type = "moved"
    THEN [s1 EXCEPT !.heap[event.breakpoint].activeBufferRow = event.bufferRow]
    ELSE s1

\* An observer of the proxy's breakpoint channel that calls removeBreakpoint
\* from inside its handler: at the first 'moved' event the proxy publishes on
\* its own account it removes the breakpoints of st.removes, in order.
RECURSIVE RemoveAll(_, _, _)
RemoveAll(st, bps, i) ==
    IF i > Len(bps) THEN st ELSE RemoveAll(RemoveBreakpoint(st, bps[i]), bps, i + 1)

Observe(st) ==
    [RemoveAll([st EXCEPT !.removes = <<>>], st.removes, 1) EXCEPT !.ret = st.ret]

\* for (const breakpoint of this.breakpoints) { ... } of the session handler,
\* over the array the loop started with.
RECURSIVE Restore(_, _, _)
Restore(st, bps, i) ==
    IF i > Len(bps) THEN st
    ELSE LET bp == bps[i]
             location == Location(bp)
         IN  IF FalsyRow(st.heap[bp].activeBufferRow)
             THEN Restore(st, bps, i + 1)
             ELSE IF FalsyRow(location.bufferRow) \/ ~IsNumber(location.bufferRow)
             THEN [st EXCEPT !.error = RowError]
             ELSE LET s1 == Observe(Emit(st, BreakpointEvent("moved", bp, location.bufferRow)))
                      s2 == [s1 EXCEPT !.heap[bp].activeBufferRow = NoRow]
                  IN  Restore(s2, bps, i + 1)

\* Mutant: the rows are restored before the session is cleared and the
\* subscriptions are disposed.
SessionHandlerRestoresFirst(st, event) ==
    LET s1 == Emit(st, event) IN
    IF event.type # "terminated" THEN s1
    ELSE [Restore(s1, s1.breakpoints, 1) EXCEPT !.activeDebugger = NoDebugger,
                                                !.activeSubscriptions = <<>>,
                                                !.disposed = TRUE]

\* debug.onSessionEvent((event) => ...)
SessionHandler(st, event) ==
    LET s1 == Emit(st, event) IN
    IF event.type # "terminated" THEN s1
    ELSE LET s2 == [s1 EXCEPT !.activeDebugger = NoDebugger,
                              !.activeSubscriptions = <<>>,
                              !.disposed = TRUE]
         IN  Restore(s2, s2.breakpoints, 1)

\* debug.onTargetEvent((event) => ...)
TargetHandler(st, event) == Emit(st, event)

Handler(st, event) ==
    CASE event.channel = "breakpoint" -> BreakpointHandler(st, event)
      [] event.channel = "session" -> SessionHandler(st, event)
      [] event.channel = "target" -> TargetHandler(st, event)

\* The number of live subscriptions of the proxy to a channel of an engine.
Handlers(subs, e, channel) ==
    Cardinality({i \in 1..Len(subs) : subs[i].engine = e /\ subs[i].channel = channel})

\* The engine calls the n handlers its channel had when it emitted the event,
\* in order; an exception of a handler ends the delivery.
RECURSIVE Deliver(_, _, _, _, _)
Deliver(st, e, event, k, n) ==
    IF k > n \/ st.error # NoError THEN st
    ELSE IF st.disposed /\ ~CallsDisposedHandlers(e) THEN st
    ELSE Deliver(Handler(st, event), e, event, k + 1, n)

\* The engine e emits the event.
EngineEmits(st, e, event) ==
    Deliver([st EXCEPT !.disposed = FALSE], e, event, 1,
            Handlers(st.activeSubscriptions, e, event.channel))

RECURSIVE EngineEmitsAll(_, _, _, _)
EngineEmitsAll(st, e, events, i) ==
    IF i > Len(events) \/ st.error # NoError THEN st
    ELSE EngineEmitsAll(EngineEmits(st, e, events[i]), e, events, i + 1)

----------------------------------------------------------------------------
(* Control and inspection *)

\* Mutant: a control operation throws without a session, as an inspection does.
ControlThrows(st, method, args) ==
    LET debug == st.activeDebugger IN
    IF debug # NoDebugger THEN Call(st, debug, method, args)
    ELSE [st EXCEPT !.error = NoSessionError]

\* Mutant: an inspection without a session returns nothing instead of throwing.
InspectSilent(st, method) ==
    LET debug == st.activeDebugger IN
    IF debug # NoDebugger
    THEN [Call(st, debug, method, <<>>) EXCEPT !.ret = "promise"]
    ELSE st

\* stop, resume, pause, stepInto, stepOver, setSelectedFrame:
\* const debug = this.getActiveDebugger(); if (debug) { debug.method(args) }
Control(st, method, args) ==
    LET debug == st.activeDebugger IN
    IF debug # NoDebugger THEN Call(st, debug, method, args) ELSE st

\* getCallStack, getSelectedFrame, getVariableList:
\* if (debug) { return debug.method() }; throw Error('No Session in progress')
Inspect(st, method) ==
    LET debug == st.activeDebugger IN
    IF debug # NoDebugger
    THEN [Call(st, debug, method, <<>>) EXCEPT !.ret = "promise"]
    ELSE [st EXCEPT !.error = NoSessionError]

----------------------------------------------------------------------------
(* The outcome of a call becomes the next state. *)

Commit(st, name, bp, condition, engine, event, args) ==
    /\ breakpoints' = st.breakpoints
    /\ heap' = st.heap
    /\ activeDebugger' = st.activeDebugger
    /\ activeSubscriptions' = st.activeSubscriptions
    /\ lastOp' = [op |-> name, breakpoint |-> bp, condition |-> condition,
                  engine |-> engine, event |-> event, args |-> args, ret |-> st.ret,
                  emitted |-> st.emitted, seen |-> st.seen, calls |-> st.calls,
                  error |-> st.error]

Init ==
    /\ breakpoints = <<>>
    /\ heap = [o \in Objects |-> NewBreakpoint]
    /\ activeDebugger = NoDebugger
    /\ activeSubscriptions = <<>>
    /\ running = {}
    /\ lastOp = [op |-> "constructor", breakpoint |-> NoBreakpoint, condition |-> NoCondition,
                 engine |-> NoDebugger, event |-> NoEvent, args |-> <<>>, ret |-> "void",
                 emitted |-> <<>>, seen |-> <<>>, calls |-> <<>>, error |-> NoError]

\* startSession(target, debug), with what debug.start() does: it emits the
\* events of sync to its handlers and then returns, or throws.  The target
\* and the collection handed to start() are not recorded.
StartSession(st, debug, sync, throws) ==
    LET s1 == [st EXCEPT !.activeSubscriptions =
                   @ \o [i \in 1..Len(Channels) |-> [engine |-> debug, channel |-> Channels[i]]]]
        s2 == EngineEmitsAll(Call(s1, debug, "start", <<>>), debug, sync, 1)
        s3 == IF s2.error = NoError /\ throws THEN [s2 EXCEPT !.error = StartError] ELSE s2
    IN  IF s3.error = NoError THEN [s3 EXCEPT !.activeDebugger = debug] ELSE s3

Terminates(events) == \E i \in 1..Len(events) : events[i].type = "terminated"

startSession(debug, sync, throws) ==
    /\ debug \notin running
    /\ Len(activeSubscriptions) + Len(Channels) <= MaxSessions * Len(Channels)
    /\ LET st == StartSession(Current, debug, sync, throws)
       IN  /\ Commit(st, "startSession", NoBreakpoint, NoCondition, debug,
                     IF sync = <<>> THEN NoEvent ELSE sync[1], <<>>)
           /\ running' = IF st.error = NoError /\ ~Terminates(sync)
                         THEN running \cup {debug} ELSE running \ {debug}

\* The engine emits an event after start() has returned: the proxy's code
\* runs when the engine has a handler of the proxy to call.  The breakpoint
\* of a breakpoint event is one of the collection or one of the engine's own.
\* removes is what an observer of the proxy removes from inside its handler
\* of a restoration event.
engineEvent(debug, event, foreign, removes) ==
    /\ Handlers(activeSubscriptions, debug, event.channel) > 0
    /\ event.channel = "breakpoint" =>
           event.breakpoint \in foreign \cup {breakpoints[i] : i \in 1..Len(breakpoints)}
    /\ removes # <<>> => event.type = "terminated"
    /\ Commit(EngineEmits([Current EXCEPT !.removes = removes], debug, event),
              "engineEvent", NoBreakpoint, NoCondition, debug, event, <<>>)
    /\ running' = IF event.type = "terminated" THEN running \ {debug} ELSE running

Mutation(st, name, bp, condition) ==
    /\ Commit(st, name, bp, condition, NoDebugger, NoEvent, <<>>)
    /\ UNCHANGED running

insertBreakpoint(breakpoint) ==
    Mutation(InsertBreakpoint(Current, breakpoint), "insertBreakpoint", breakpoint, NoCondition)

removeBreakpoint(breakpoint) ==
    Mutation(RemoveBreakpoint(Current, breakpoint), "removeBreakpoint", breakpoint, NoCondition)

enableBreakpoint(breakpoint) ==
    Mutation(EnableBreakpoint(Current, breakpoint), "enableBreakpoint", breakpoint, NoCondition)

disableBreakpoint(breakpoint) ==
    Mutation(DisableBreakpoint(Current, breakpoint), "disableBreakpoint", breakpoint, NoCondition)

setBreakpointCondition(breakpoint, condition) ==
    Mutation(SetBreakpointCondition(Current, breakpoint, condition),
             "setBreakpointCondition", breakpoint, condition)

clearBreakpointCondition(breakpoint) ==
    Mutation(ClearBreakpointCondition(Current, breakpoint),
             "clearBreakpointCondition", breakpoint, NoCondition)

Delegation(st, name, args) ==
    /\ Commit(st, name, NoBreakpoint, NoCondition, NoDebugger, NoEvent, args)
    /\ UNCHANGED running

stop == Delegation(Control(Current, "stop", <<>>), "stop", <<>>)
resume == Delegation(Control(Current, "resume", <<>>), "resume", <<>>)
pause == Delegation(Control(Current, "pause", <<>>), "pause", <<>>)
stepInto == Delegation(Control(Current, "stepInto", <<>>), "stepInto", <<>>)
stepOver == Delegation(Control(Current, "stepOver", <<>>), "stepOver", <<>>)
setSelectedFrame(level) ==
    Delegation(Control(Current, "setSelectedFrame", <<level>>), "setSelectedFrame", <<level>>)
getCallStack == Delegation(Inspect(Current, "getCallStack"), "getCallStack", <<>>)
getSelectedFrame == Delegation(Inspect(Current, "getSelectedFrame"), "getSelectedFrame", <<>>)
getVariableList == Delegation(Inspect(Current, "getVariableList"), "getVariableList", <<>>)

----------------------------------------------------------------------------
(* Specifications.  The actions are the same everywhere; a universe names  *)
(* the arguments the callers and the engines use.  An engine reports the   *)
(* breakpoints of the collection it was started with, and the objects of   *)
(* its own that the universe calls foreign.                                *)

NextOver(u) ==
    \/ \E debug \in u.engines, sync \in u.sync, throws \in u.throws :
           startSession(debug, sync, throws)
    \/ \E debug \in u.engines, event \in u.events, removes \in u.removes :
           engineEvent(debug, event, u.foreign, removes)
    \/ \E bp \in u.inserted : insertBreakpoint(bp)
    \/ \E bp \in u.inserted : removeBreakpoint(bp)
    \/ \E bp \in u.flagged : enableBreakpoint(bp)
    \/ \E bp \in u.flagged : disableBreakpoint(bp)
    \/ \E bp \in u.flagged, condition \in u.conditions : setBreakpointCondition(bp, condition)
    \/ \E bp \in u.flagged : clearBreakpointCondition(bp)
    \/ stop
    \/ resume
    \/ pause
    \/ stepInto
    \/ stepOver
    \/ \E level \in Levels : setSelectedFrame(level)
    \/ getCallStack
    \/ getSelectedFrame
    \/ getVariableList

Moved(objects, rows) == {Event("breakpoint", "moved", o, r, "engine") : o \in objects, r \in rows}
NotMoved(objects) == {Event("breakpoint", "enabled", o, NoRow, "engine") : o \in objects}
Terminated == Event("session", "terminated", NoBreakpoint, NoRow, "engine")
Suspended == Event("session", "suspended", NoBreakpoint, NoRow, "engine")
Output == Event("target", "output", NoBreakpoint, NoRow, "engine")

\* Restoration: one engine, three breakpoints that the engine moves, and an
\* observer that removes a breakpoint while the rows are restored.
RestorationUniverse ==
    [engines |-> {"e1"}, inserted |-> Objects, flagged |-> {3}, conditions |-> {"x"},
     foreign |-> {}, removes |-> {<<>>, <<1>>, <<3>>},
     events |-> Moved(Objects, EngineRows) \cup NotMoved({1}) \cup {Terminated, Suspended, Output},
     sync |-> {<<>>, <<Terminated>>},
     throws |-> {FALSE}]

\* Sessions: two engines, one breakpoint, and an object of the engines' own
\* with the location of that breakpoint.
SessionUniverse ==
    [engines |-> Engines, inserted |-> {1}, flagged |-> {1}, conditions |-> {"x"},
     foreign |-> {2}, removes |-> {<<>>},
     events |-> Moved({1, 2}, {12}) \cup {Terminated, Suspended, Output},
     sync |-> {<<>>, <<Terminated>>, <<Suspended>>, <<Output>>},
     throws |-> BOOLEAN]

\* Breakpoints: every collection operation on every breakpoint, one engine.
BreakpointUniverse ==
    [engines |-> {"e1"}, inserted |-> Objects, flagged |-> Objects, conditions |-> Conditions,
     foreign |-> {}, removes |-> {<<>>},
     events |-> Moved({1}, {12}) \cup {Terminated},
     sync |-> {<<>>},
     throws |-> {FALSE}]

Next == NextOver(RestorationUniverse)
NextSessions == NextOver(SessionUniverse)
NextBreakpoints == NextOver(BreakpointUniverse)

Spec == Init /\ [][Next]_vars
SpecSessions == Init /\ [][NextSessions]_vars
SpecBreakpoints == Init /\ [][NextBreakpoints]_vars

----------------------------------------------------------------------------
(* Properties *)

Entries == {breakpoints[i] : i \in 1..Len(breakpoints)}

Count(seq, x) == Cardinality({i \in 1..Len(seq) : seq[i] = x})

\* The entry of the collection at the location of bp, if any.
EntriesAt(bp) == {e \in Entries : Location(e) = Location(bp)}

\* The call just made handled a 'terminated' session event.
TerminatedHandled == lastOp.op \in {"engineEvent", "startSession"} /\ lastOp.event = Terminated

MutationOps ==
    {"insertBreakpoint", "removeBreakpoint", "enableBreakpoint", "disableBreakpoint",
     "setBreakpointCondition", "clearBreakpointCondition"}

ControlOps == {"stop", "resume", "pause", "stepInto", "stepOver", "setSelectedFrame"}

InspectionOps == {"getCallStack", "getSelectedFrame", "getVariableList"}

EventTypeOf(op) ==
    CASE op = "insertBreakpoint" -> "inserted"
      [] op = "removeBreakpoint" -> "removed"
      [] op = "enableBreakpoint" -> "enabled"
      [] op = "disableBreakpoint" -> "disabled"
      [] op = "setBreakpointCondition" -> "condition-added"
      [] op = "clearBreakpointCondition" -> "condition-removed"

ProxyUnchanged ==
    /\ breakpoints' = breakpoints
    /\ heap' = heap
    /\ activeDebugger' = activeDebugger
    /\ activeSubscriptions' = activeSubscriptions

\* C1: when a 'terminated' session event has been handled, every breakpoint of
\* the collection whose activeBufferRow was non-null before it (row 0 included)
\* has had exactly one synthetic 'moved' event published, carrying the
\* breakpoint and its static row, and its activeBufferRow is null.
C1_EveryMovedBreakpointIsRestored ==
    [][TerminatedHandled' =>
         \A bp \in Entries :
             heap[bp].activeBufferRow # NoRow =>
                 /\ Count(lastOp'.emitted,
                          BreakpointEvent("moved", bp, Location(bp).bufferRow)) = 1
                 /\ heap'[bp].activeBufferRow = NoRow]_vars

\* C2: the collection never holds two breakpoints with equal locations.
C2_NoEqualLocations ==
    \A i, j \in 1..Len(breakpoints) :
        i # j => Location(breakpoints[i]) # Location(breakpoints[j])

\* C2 happens: the collection holds two breakpoints and has just refused a
\* third object whose location one of them has.
C2_Witness ==
    /\ Len(breakpoints) = 2
    /\ lastOp.op = "insertBreakpoint"
    /\ lastOp.ret = "false"
    /\ lastOp.breakpoint \notin Entries

\* C3: between calls, the proxy holds live engine subscriptions if and only
\* if its active session is non-null.
C3_SubscriptionsIffSession ==
    (activeSubscriptions # <<>>) <=> (activeDebugger # NoDebugger)

\* C4: after startSession has started a session there is exactly one live
\* engine subscription per channel, and after a 'terminated' session event
\* has been handled there is none.
C4_OneSubscriptionPerChannel ==
    /\ (lastOp.op = "startSession" /\ lastOp.error = NoError /\ lastOp.event # Terminated)
           => \A c \in 1..Len(Channels) :
                  Cardinality({i \in 1..Len(activeSubscriptions) :
                                   activeSubscriptions[i].channel = Channels[c]}) = 1
    /\ TerminatedHandled => activeSubscriptions = <<>>

\* C5: between calls, a breakpoint of the collection has a non-null
\* activeBufferRow only while the active session is non-null.
C5_ActiveRowOnlyInSession ==
    \A bp \in Entries :
        heap[bp].activeBufferRow # NoRow => activeDebugger # NoDebugger

\* The same call made again would return false, publish nothing and change
\* nothing.
Refused(st) ==
    /\ st.ret = "false"
    /\ st.emitted = <<>>
    /\ st.breakpoints = breakpoints
    /\ st.heap = heap

\* C6: after enableBreakpoint, disableBreakpoint, setBreakpointCondition or
\* clearBreakpointCondition, the same call with the same arguments returns
\* false, changes nothing and publishes nothing.
C6_SecondCallRefused ==
    /\ lastOp.op = "enableBreakpoint"
           => Refused(EnableBreakpoint(Current, lastOp.breakpoint))
    /\ lastOp.op = "disableBreakpoint"
           => Refused(DisableBreakpoint(Current, lastOp.breakpoint))
    /\ lastOp.op = "setBreakpointCondition"
           => Refused(SetBreakpointCondition(Current, lastOp.breakpoint, lastOp.condition))
    /\ lastOp.op = "clearBreakpointCondition"
           => Refused(ClearBreakpointCondition(Current, lastOp.breakpoint))

\* C7: insertBreakpoint of a breakpoint whose location the collection already
\* holds returns false, leaves the collection and its entries as they were
\* and publishes nothing.
C7_InsertOfPresentLocationRefused ==
    [][(lastOp'.op = "insertBreakpoint" /\ EntriesAt(lastOp'.breakpoint) # {}) =>
           /\ lastOp'.ret = "false"
           /\ lastOp'.emitted = <<>>
           /\ breakpoints' = breakpoints
           /\ heap' = heap]_vars

\* C7 happens: a second object was refused at the location of an entry that
\* is disabled, conditioned and moved, with another entry beside it.
C7_Witness ==
    /\ lastOp.op = "insertBreakpoint"
    /\ lastOp.ret = "false"
    /\ lastOp.breakpoint \notin Entries
    /\ Len(breakpoints) = 2
    /\ \E e \in Entries :
           /\ Location(e) = Location(lastOp.breakpoint)
           /\ ~heap[e].enabled
           /\ heap[e].condition = "x"
           /\ heap[e].activeBufferRow = 12

\* C8: a collection operation that returns true publishes exactly one event,
\* of the type of the operation and carrying the entry it acted on; one that
\* returns false publishes nothing and changes nothing.
C8_OneEventPerSuccessfulMutation ==
    [][lastOp'.op \in MutationOps =>
           \/ /\ lastOp'.ret = "true"
              /\ \E entry \in (IF lastOp'.op = "insertBreakpoint"
                               THEN {breakpoints'[Len(breakpoints')]} \cap {lastOp'.breakpoint}
                               ELSE EntriesAt(lastOp'.breakpoint)) :
                     lastOp'.emitted = <<BreakpointEvent(EventTypeOf(lastOp'.op), entry, NoRow)>>
           \/ /\ lastOp'.ret = "false"
              /\ lastOp'.emitted = <<>>
              /\ ProxyUnchanged]_vars

\* C8 happens: an entry was removed through another object with its location,
\* and the event carries the entry.
C8_Witness ==
    /\ lastOp.op = "removeBreakpoint"
    /\ lastOp.ret = "true"
    /\ Len(lastOp.emitted) = 1
    /\ lastOp.emitted[1].breakpoint # lastOp.breakpoint

\* C9: an inspection operation called without an active session throws 'No
\* Session in progress' and calls no engine; called with one, it makes exactly
\* one call, of the same name, on the active engine.
C9_InspectionNeedsSession ==
    [][lastOp'.op \in InspectionOps =>
           IF activeDebugger = NoDebugger
           THEN lastOp'.error = NoSessionError /\ lastOp'.calls = <<>>
           ELSE /\ lastOp'.error = NoError
                /\ lastOp'.calls = <<[engine |-> activeDebugger, method |-> lastOp'.op,
                                       args |-> <<>>]>>]_vars

\* C9 happens: an inspection failed on an idle proxy while an engine that was
\* started earlier is still running.
C9_Witness ==
    /\ lastOp.op = "getCallStack"
    /\ lastOp.error = NoSessionError
    /\ activeDebugger = NoDebugger
    /\ running # {}

\* C10: a control operation called without an active session throws nothing,
\* calls no engine, publishes nothing and leaves the proxy as it was; called
\* with one, it forwards exactly one call of the same name, with its
\* arguments, to the active engine and leaves the proxy as it was.
C10_ControlDelegates ==
    [][lastOp'.op \in ControlOps =>
           /\ lastOp'.error = NoError
           /\ lastOp'.emitted = <<>>
           /\ ProxyUnchanged
           /\ lastOp'.calls = IF activeDebugger = NoDebugger THEN <<>>
                              ELSE <<[engine |-> activeDebugger, method |-> lastOp'.op,
                                      args |-> lastOp'.args]>>]_vars

\* C10 happens: a control operation did nothing on an idle proxy that holds a
\* breakpoint and live engine subscriptions.
C10_Witness ==
    /\ lastOp.op = "stepOver"
    /\ lastOp.calls = <<>>
    /\ activeDebugger = NoDebugger
    /\ breakpoints # <<>>
    /\ activeSubscriptions # <<>>

\* The engines that were started, have not emitted 'terminated', and have live
\* subscriptions with the proxy.
LiveEngines ==
    {e \in running : \E c \in 1..Len(Channels) :
                         Handlers(activeSubscriptions, e, Channels[c]) > 0}

\* C11: at most one engine that was started and has not emitted 'terminated'
\* has live subscriptions with the proxy, and handling a 'terminated' event of
\* one engine clears neither the active session nor the subscriptions of
\* another engine that is still running.
C11_AtMostOneActiveSession ==
    [][/\ Cardinality(LiveEngines') <= 1
       /\ TerminatedHandled' =>
              \A e \in running' \ {lastOp'.engine} :
                  /\ activeDebugger = e => activeDebugger' = e
                  /\ \A c \in 1..Len(Channels) :
                         Handlers(activeSubscriptions', e, Channels[c]) =
                             Handlers(activeSubscriptions, e, Channels[c])]_vars

\* The positions of lastOp.emitted that hold a 'moved' event the proxy
\* published on its own account.
Restorations(op) ==
    {i \in 1..Len(op.emitted) :
         op.emitted[i].type = "moved" /\ op.emitted[i].origin = "proxy"}

\* C12: when a 'terminated' session event is handled, the event is republished
\* first, while the session is still active and subscribed, and every
\* synthetic 'moved' event comes after it and is seen by its observers with a
\* null active session and no live engine subscription.
C12_RestorationAfterTeardown ==
    TerminatedHandled =>
        /\ Len(lastOp.emitted) >= 1
        /\ lastOp.emitted[1] = Terminated
        /\ lastOp.seen[1].activeSubscriptions # <<>>
        /\ \A i \in Restorations(lastOp) :
               /\ i > 1
               /\ lastOp.seen[i].activeDebugger = NoDebugger
               /\ lastOp.seen[i].activeSubscriptions = <<>>

\* C12 happens: a session that was active ended and a row was restored.
C12_Witness ==
    /\ TerminatedHandled
    /\ lastOp.seen[1].activeDebugger = lastOp.engine
    /\ Restorations(lastOp) # {}

\* C13: when an engine's 'moved' breakpoint event has been handled, the entry
\* of the collection at the location of the event's breakpoint has the row of
\* the event as its activeBufferRow, whether or not the event carries the
\* entry itself.
C13_MovedRowWrittenToEntry ==
    [][(lastOp'.op = "engineEvent" /\ lastOp'.event.type = "moved") =>
           \A entry \in EntriesAt(lastOp'.event.breakpoint) :
               heap'[entry].activeBufferRow = lastOp'.event.bufferRow]_vars

\* The restoration loop must stop at bp: its row was moved and its static
\* location has no numeric row.
Offending(bp) ==
    heap[bp].activeBufferRow # NoRow /\ ~IsNumber(Location(bp).bufferRow)

\* C14: handling a 'terminated' session event throws 'BreakpointLocation.
\* bufferRow must be a number' exactly when an entry with a non-null
\* activeBufferRow has a static row that is no number (row 0 is a number);
\* when it throws, an entry is at fault, and neither it nor any later entry
\* has a synthetic 'moved' event or a changed activeBufferRow.
C14_RowErrorExactlyWhenNoNumber ==
    [][TerminatedHandled' =>
           /\ lastOp'.error = RowError <=> \E bp \in Entries : Offending(bp)
           /\ lastOp'.error = RowError =>
                  \E k \in 1..Len(breakpoints) :
                      /\ Offending(breakpoints[k])
                      /\ \A j \in k..Len(breakpoints) :
                             /\ heap'[breakpoints[j]].activeBufferRow =
                                    heap[breakpoints[j]].activeBufferRow
                             /\ \A i \in Restorations(lastOp') :
                                    lastOp'.emitted[i].breakpoint # breakpoints[j]]_vars

\* The event has no effect of its own: a target event, or a session event
\* other than 'terminated'.
OnlyRepublished(event) ==
    \/ event.channel = "target"
    \/ event.channel = "session" /\ event.type # "terminated"

\* C15: an event the active engine emits is republished exactly once, as it
\* is and before anything else is published; for a target event and for a
\* session event other than 'terminated' nothing else is published and the
\* proxy is left as it was.
C15_RepublishedOnceUnchanged ==
    [][(lastOp'.op = "engineEvent" /\ activeDebugger = lastOp'.engine) =>
           /\ Count(lastOp'.emitted, lastOp'.event) = 1
           /\ lastOp'.emitted[1] = lastOp'.event
           /\ OnlyRepublished(lastOp'.event) =>
                  lastOp'.emitted = <<lastOp'.event>> /\ ProxyUnchanged]_vars

\* C16: an engine event is republished only through a subscription that is
\* live when the handler runs, and once a 'terminated' session event has been
\* handled its engine has no live subscription left, so that nothing it emits
\* afterwards reaches the proxy.
C16_NothingFromExpiredEngine ==
    /\ \A i \in 1..Len(lastOp.emitted) :
           lastOp.emitted[i].origin = "engine" =>
               Handlers(lastOp.seen[i].activeSubscriptions, lastOp.engine,
                        lastOp.emitted[i].channel) > 0
    /\ TerminatedHandled =>
           \A c \in 1..Len(Channels) :
               Handlers(activeSubscriptions, lastOp.engine, Channels[c]) = 0

\* C17: setBreakpointCondition returns true exactly when the collection has an
\* entry at the location whose condition is null or differs from the argument;
\* clearBreakpointCondition returns true exactly when it has one whose
\* condition is not null; and after a setBreakpointCondition that returned
\* true, the empty string included, clearBreakpointCondition returns true and
\* leaves the condition null.
C17_ConditionSetAndCleared ==
    [][/\ lastOp'.op = "setBreakpointCondition" =>
              /\ lastOp'.ret = "true" <=>
                     \E entry \in EntriesAt(lastOp'.breakpoint) :
                         heap[entry].condition # lastOp'.condition
              /\ lastOp'.ret = "true" =>
                     \A entry \in EntriesAt(lastOp'.breakpoint) :
                         LET st == ClearBreakpointCondition(
                                       [Current EXCEPT !.heap = heap'], lastOp'.breakpoint)
                         IN  st.ret = "true" /\ st.heap[entry].condition = NoCondition
       /\ lastOp'.op = "clearBreakpointCondition" =>
              (lastOp'.ret = "true" <=>
                   \E entry \in EntriesAt(lastOp'.breakpoint) :
                       heap[entry].condition # NoCondition)]_vars

\* The operation op of the collection, as a function of the proxy's fields.
MutationOf(st, op, bp, condition) ==
    CASE op = "insertBreakpoint" -> InsertBreakpoint(st, bp)
      [] op = "removeBreakpoint" -> RemoveBreakpoint(st, bp)
      [] op = "enableBreakpoint" -> EnableBreakpoint(st, bp)
      [] op = "disableBreakpoint" -> DisableBreakpoint(st, bp)
      [] op = "setBreakpointCondition" -> SetBreakpointCondition(st, bp, condition)
      [] op = "clearBreakpointCondition" -> ClearBreakpointCondition(st, bp)

\* C18: a collection operation returns, changes and publishes what it would on
\* an idle proxy with the same collection, leaves the active session and the
\* engine subscriptions as they were and calls no engine.
C18_MutationsIgnoreSession ==
    [][lastOp'.op \in MutationOps =>
           LET idle == MutationOf([Current EXCEPT !.activeDebugger = NoDebugger,
                                                  !.activeSubscriptions = <<>>],
                                  lastOp'.op, lastOp'.breakpoint, lastOp'.condition)
           IN  /\ lastOp'.ret = idle.ret
               /\ lastOp'.emitted = idle.emitted
               /\ breakpoints' = idle.breakpoints
               /\ heap' = idle.heap
               /\ activeDebugger' = activeDebugger
               /\ activeSubscriptions' = activeSubscriptions
               /\ lastOp'.calls = <<>>]_vars

\* C18 happens: a moved and conditioned breakpoint was disabled while one
\* engine is the active session and another one is running as well.
C18_Witness ==
    /\ lastOp.op = "disableBreakpoint"
    /\ lastOp.ret = "true"
    /\ activeDebugger # NoDebugger
    /\ Cardinality(running) = 2
    /\ \E entry \in EntriesAt(lastOp.breakpoint) :
           heap[entry].activeBufferRow = 12 /\ heap[entry].condition = "x"

\* C19: an event the engine emits inside start() is republished, with the
\* three subscriptions of the call already registered; whoever observes it
\* sees the active session startSession was called with; and the engine is
\* the active session once start() has returned.
C19_SubscribedBeforeActiveAfter ==
    [][lastOp'.op = "startSession" =>
           /\ lastOp'.event # NoEvent =>
                  /\ Len(lastOp'.emitted) >= 1
                  /\ lastOp'.emitted[1] = lastOp'.event
                  /\ lastOp'.seen[1].activeSubscriptions =
                         activeSubscriptions \o
                             [i \in 1..Len(Channels) |->
                                  [engine |-> lastOp'.engine, channel |-> Channels[i]]]
           /\ \A i \in 1..Len(lastOp'.emitted) :
                  lastOp'.emitted[i].origin = "engine" =>
                      lastOp'.seen[i].activeDebugger = activeDebugger
           /\ lastOp'.error = NoError => activeDebugger' = lastOp'.engine]_vars

\* The breakpoints an observer removed during the call just made.
Removed(op) ==
    {op.emitted[i].breakpoint : i \in {j \in 1..Len(op.emitted) : op.emitted[j].type = "removed"}}

\* C20: startSession and the handling of an engine event leave the enabled
\* flag and the condition of every breakpoint as they were, and the collection
\* too, but for what an observer removed from inside its handler; and when an
\* observer removed breakpoints from inside its handler of a restoration
\* event, every breakpoint it did not remove whose activeBufferRow was
\* non-null has had its one synthetic 'moved' event and has a null
\* activeBufferRow.
C20_LifecycleKeepsBreakpoints ==
    [][lastOp'.op \in {"startSession", "engineEvent"} =>
           /\ breakpoints' = SelectSeq(breakpoints, LAMBDA bp : bp \notin Removed(lastOp'))
           /\ \A o \in Objects :
                  /\ heap'[o].enabled = heap[o].enabled
                  /\ heap'[o].condition = heap[o].condition
           /\ Removed(lastOp') # {} =>
                  \A bp \in Entries \ Removed(lastOp') :
                      heap[bp].activeBufferRow # NoRow =>
                          /\ Count(lastOp'.emitted,
                                   BreakpointEvent("moved", bp, Location(bp).bufferRow)) = 1
                          /\ heap'[bp].activeBufferRow = NoRow]_vars

====
